---- MODULE Spec2Model ----
(***************************************************************************)
(* Focal Point: the persistent-state lifecycle manager.                    *)
(*   - db.js: the startup sequence (legacy umzug.json import, migration    *)
(*     runner over the `migrations` ledger table);                         *)
(*   - utils/backup.js: archive creation, size-bounded retention, restore; *)
(*   - server.js / routes/admin.js: the restore and backup routes.         *)
(* Three specifications share the variables: SpecMig (startup), SpecBackup *)
(* (archive creation and retention) and SpecRestore (restore procedure).   *)
(***************************************************************************)
EXTENDS Integers, Sequences, FiniteSets, TLC

VARIABLES
    \* ---- db.js ----
    pc,                 \* position of the startup IIFE of db.js
    ledger,             \* rows of table `migrations` (name TEXT PRIMARY KEY)
    applied,            \* units whose `up` has taken effect on gallery.db
    umzugJsonExists,    \* data/umzug.json is on disk
    umzugJson,          \* its content: the list of names it records
    migrationFiles,     \* db.js:57, the sorted file list
    executedMigrations, \* db.js:74, the ledger names read at startup
    oldMigrations,      \* db.js:81, names of the legacy file still to insert
    pending,            \* umzug.up(): the units still to run, in order
    attempted,          \* units whose `up` was called in this run, in order
    failedUnit,         \* the unit whose `up` threw in this run, or None
    startedFull,        \* this run started with every unit in the ledger
    importHist,         \* history of the legacy import over the process starts
    \* ---- utils/backup.js, server.js ----
    clock,              \* the reading of Date.now() / new Date(), in ms
    files,              \* the .zip files of BACKUP_DIR: name -> size, mtime, members
    liveDb,             \* data/gallery.db
    liveImages,         \* the live images directory tree
    liveUploads,        \* public/uploads
    lastOp,             \* the last archive creation: what it stored and evicted
    \* ---- restore: backup.js restoreBackup, server.js POST /admin/restore ----
    rpc,                \* phase of the restore in progress
    r,                  \* its locals: implementation, archive, extractDir, error
    staging,            \* the staging directories on disk: path -> content
    uploadFile,         \* the temporary file multer stored the upload in exists
    pre,                \* the live state when the restore began
    \* ---- bulk delete: backup.js, routes/admin.js, server.js ----
    bdir,               \* the names of the files of BACKUP_DIR, character by character
    bulkOp,             \* the last operation, if a bulk delete: input and outcome
    access,             \* the last operation, if on one name: the test, the path used
    \* ---- createBackup of backup.js, step by step ----
    build,              \* the createBackup calls in progress: position and locals
    partial,            \* the files of BACKUP_DIR whose write stream has not ended
    \* ---- restoreBackup of backup.js, calls overlapping ----
    calls,              \* the restoreBackup calls: position and locals of each
    \* ---- a utility module that requires db.js: utils/categories.js ----
    gate,               \* the `ready` value the module holds, its last statement
    \* ---- utils/categoryCache.js ----
    cache,              \* categoryCache, categoryCacheTime, the store, the time
    refresh             \* the getCachedCategories calls: position and locals

migVars == <<pc, ledger, applied, umzugJsonExists, umzugJson, migrationFiles,
             executedMigrations, oldMigrations, pending, attempted, failedUnit,
             startedFull, importHist>>

backupVars == <<clock, files, lastOp>>

liveVars == <<liveDb, liveImages, liveUploads>>

restoreVars == <<rpc, r, staging, uploadFile, pre>>

bulkVars == <<bdir, bulkOp, access>>

buildVars == <<build, partial>>

callVars == <<calls>>

auxVars == <<gate, cache, refresh>>

opVars == <<bulkVars, buildVars, callVars, auxVars>>

vars == <<migVars, backupVars, liveVars, restoreVars, opVars>>

nonMigVars == <<backupVars, liveVars, restoreVars, opVars>>

None == "none"

Range(s) == {s[i] : i \in DOMAIN s}

(***************************************************************************)
(* Migration units: the files of src/migrations, each named by the three   *)
(* characters its file name starts with (001-initial.js, ...).             *)
(***************************************************************************)
MigrationNames == { <<0, 0, 1>>, <<0, 0, 2>>, <<0, 0, 4>>, <<0, 0, 5>>, <<0, 0, 6>> }

\* String comparison of Array.prototype.sort(): by code unit, left to right.
RECURSIVE LexLess(_, _)
LexLess(a, b) ==
    IF b = <<>> THEN FALSE
    ELSE IF a = <<>> THEN TRUE
    ELSE IF Head(a) # Head(b) THEN Head(a) < Head(b)
    ELSE LexLess(Tail(a), Tail(b))

\* Insertion of one name into an ascending list.
RECURSIVE InsertSorted(_, _)
InsertSorted(x, s) ==
    IF s = <<>> THEN <<x>>
    ELSE IF LexLess(x, Head(s)) THEN <<x>> \o s
    ELSE <<Head(s)>> \o InsertSorted(x, Tail(s))

RECURSIVE SortNames(_)
SortNames(s) ==
    IF s = <<>> THEN <<>> ELSE InsertSorted(Head(s), SortNames(Tail(s)))

\* Every order fs.readdir may return the entries of a directory in.
Orders(S) ==
    {s \in [1..Cardinality(S) -> S] : \A i, j \in DOMAIN s : i # j => s[i] # s[j]}

\* A buggy variant: the list is used in directory order.
ReadMigrationFiles_NoSort(order) == order

\* db.js:57  (await fs.readdir(migrationsDir)).filter(...).sort()
ReadMigrationFiles(order) == SortNames(order)

\* INSERT OR IGNORE INTO migrations (name) VALUES (?), name being the primary key
InsertOrIgnore(rows, name) ==
    IF name \in Range(rows) THEN rows ELSE Append(rows, name)

\* SELECT name FROM migrations
Executed(rows) == Range(rows)

RECURSIVE FilterOut(_, _)
FilterOut(s, done) ==
    IF s = <<>> THEN <<>>
    ELSE IF Head(s) \in done THEN FilterOut(Tail(s), done)
    ELSE <<Head(s)>> \o FilterOut(Tail(s), done)

\* A buggy variant: every unit is pending, recorded or not.
UmzugPending_All(list, done) == list

\* umzug.up(): the units of the list that storage.executed() does not name,
\* in the order of the list.
UmzugPending(list, done) == FilterOut(list, done)

\* The prefixes of the sorted unit list: what an older installation, which
\* ran the units in order, can have recorded in umzug.json.
LegacyLists ==
    LET all == SortNames(CHOOSE s \in Orders(MigrationNames) : TRUE)
    IN  {SubSeq(all, 1, k) : k \in 0..Len(all)}

\* No start has imported anything yet: `now`, this start has inserted a name of
\* the legacy file; `before`, an earlier start has; `unlinks`, how often the
\* legacy file was deleted; `completed`, an import has run to its end.
NoImport == [now |-> FALSE, before |-> FALSE, unlinks |-> 0, completed |-> FALSE]

\* A buggy variant: the legacy file is imported whatever the table holds.
ShouldImport_IgnoresLedger(exists, executedCount) == exists

\* db.js:80  if (umzugJsonExists && executedMigrations.length === 0)
ShouldImport(exists, executedCount) == exists /\ executedCount = 0

\* Before the first startup of this version: a fresh installation (legacy =
\* FALSE) or an installation of the older format, which recorded the units it
\* had run in umzug.json.
MigInitial(legacy) ==
    /\ pc = "down"
    /\ ledger = <<>>
    /\ IF legacy
          THEN /\ umzugJsonExists = TRUE
               /\ umzugJson \in LegacyLists
               /\ applied = Range(umzugJson)
          ELSE /\ umzugJsonExists = FALSE
               /\ umzugJson = <<>>
               /\ applied = {}
    /\ migrationFiles = <<>>
    /\ executedMigrations = {}
    /\ oldMigrations = <<>>
    /\ pending = <<>>
    /\ attempted = <<>>
    /\ failedUnit = None
    /\ startedFull = FALSE
    /\ importHist = NoImport

MigInit == \E legacy \in BOOLEAN : MigInitial(legacy)

\* db.js:38-88 up to the decision whether to import the legacy file.
Start ==
    /\ pc = "down"
    /\ \E order \in Orders(MigrationNames) :
          migrationFiles' = ReadMigrationFiles(order)
    /\ executedMigrations' = Executed(ledger)
    /\ IF ShouldImport(umzugJsonExists, Cardinality(Executed(ledger)))
          THEN pc' = "import" /\ oldMigrations' = umzugJson
          ELSE pc' = "umzug" /\ oldMigrations' = <<>>
    /\ pending' = <<>>
    /\ attempted' = <<>>
    /\ failedUnit' = None
    /\ startedFull' = (MigrationNames \subseteq Executed(ledger))
    /\ importHist' = [importHist EXCEPT !.now = FALSE,
                                        !.before = importHist.before \/ importHist.now]
    /\ UNCHANGED <<ledger, applied, umzugJsonExists, umzugJson>>
    /\ UNCHANGED nonMigVars

\* db.js:83-85, one iteration: insert.run(name)
ImportInsert ==
    /\ pc = "import"
    /\ oldMigrations # <<>>
    /\ ledger' = InsertOrIgnore(ledger, Head(oldMigrations))
    /\ oldMigrations' = Tail(oldMigrations)
    /\ importHist' = [importHist EXCEPT !.now = TRUE]
    /\ UNCHANGED <<pc, applied, umzugJsonExists, umzugJson, migrationFiles,
                   executedMigrations, pending, attempted, failedUnit, startedFull>>
    /\ UNCHANGED nonMigVars

\* A buggy variant: the import ends and leaves the legacy file on disk.
ImportUnlink_KeepsFile ==
    /\ pc = "import"
    /\ oldMigrations = <<>>
    /\ pc' = "umzug"
    /\ importHist' = [importHist EXCEPT !.completed = TRUE]
    /\ UNCHANGED <<ledger, applied, umzugJsonExists, umzugJson, migrationFiles,
                   executedMigrations, oldMigrations, pending, attempted,
                   failedUnit, startedFull>>
    /\ UNCHANGED nonMigVars

\* A buggy variant: the legacy file is deleted before the loop has ended.
ImportUnlink_Early ==
    /\ pc = "import"
    /\ umzugJsonExists' = FALSE
    /\ umzugJson' = <<>>
    /\ pc' = "umzug"
    /\ importHist' = [importHist EXCEPT !.unlinks = @ + 1, !.completed = TRUE]
    /\ UNCHANGED <<ledger, applied, migrationFiles, executedMigrations,
                   oldMigrations, pending, attempted, failedUnit, startedFull>>
    /\ UNCHANGED nonMigVars

\* db.js:87  await fs.unlink(umzugJsonPath)
ImportUnlink ==
    /\ pc = "import"
    /\ oldMigrations = <<>>
    /\ umzugJsonExists' = FALSE
    /\ umzugJson' = <<>>
    /\ pc' = "umzug"
    /\ importHist' = [importHist EXCEPT !.unlinks = @ + 1, !.completed = TRUE]
    /\ UNCHANGED <<ledger, applied, migrationFiles, executedMigrations,
                   oldMigrations, pending, attempted, failedUnit, startedFull>>
    /\ UNCHANGED nonMigVars

\* A buggy variant: the runner works from the ledger as it was read before
\* the legacy import (db.js:74).
UmzugUp_BeforeImport ==
    /\ pc = "umzug"
    /\ pending' = UmzugPending(migrationFiles, executedMigrations)
    /\ pc' = "run"
    /\ UNCHANGED <<ledger, applied, umzugJsonExists, umzugJson, migrationFiles,
                   executedMigrations, oldMigrations, attempted, failedUnit,
                   startedFull>>
    /\ UNCHANGED <<importHist, nonMigVars>>

\* db.js:115  umzug.up(): reads storage.executed() and fixes the pending list
UmzugUp ==
    /\ pc = "umzug"
    /\ pending' = UmzugPending(migrationFiles, Executed(ledger))
    /\ pc' = "run"
    /\ UNCHANGED <<ledger, applied, umzugJsonExists, umzugJson, migrationFiles,
                   executedMigrations, oldMigrations, attempted, failedUnit,
                   startedFull>>
    /\ UNCHANGED <<importHist, nonMigVars>>

\* the pending unit's up() resolves
RunUpOk ==
    /\ pc = "run"
    /\ pending # <<>>
    /\ attempted' = Append(attempted, Head(pending))
    /\ applied' = applied \cup {Head(pending)}
    /\ pc' = "log"
    /\ UNCHANGED <<ledger, umzugJsonExists, umzugJson, migrationFiles,
                   executedMigrations, oldMigrations, pending, failedUnit,
                   startedFull>>
    /\ UNCHANGED <<importHist, nonMigVars>>

\* A buggy variant: the runner goes on with the next unit after a throw.
RunUpThrows_Continue ==
    /\ pc = "run"
    /\ pending # <<>>
    /\ attempted' = Append(attempted, Head(pending))
    /\ failedUnit' = Head(pending)
    /\ pending' = Tail(pending)
    /\ UNCHANGED <<pc, ledger, applied, umzugJsonExists, umzugJson, migrationFiles,
                   executedMigrations, oldMigrations, startedFull>>
    /\ UNCHANGED <<importHist, nonMigVars>>

\* the pending unit's up() throws: umzug.up() rejects, and so does the IIFE
RunUpThrows ==
    /\ pc = "run"
    /\ pending # <<>>
    /\ attempted' = Append(attempted, Head(pending))
    /\ failedUnit' = Head(pending)
    /\ pc' = "failed"
    /\ UNCHANGED <<ledger, applied, umzugJsonExists, umzugJson, migrationFiles,
                   executedMigrations, oldMigrations, pending, startedFull>>
    /\ UNCHANGED <<importHist, nonMigVars>>

\* db.js:96-98  storage.logMigration({ name }) after the unit's up()
RunLog ==
    /\ pc = "log"
    /\ ledger' = InsertOrIgnore(ledger, Head(pending))
    /\ pending' = Tail(pending)
    /\ pc' = "run"
    /\ UNCHANGED <<applied, umzugJsonExists, umzugJson, migrationFiles,
                   executedMigrations, oldMigrations, attempted, failedUnit,
                   startedFull>>
    /\ UNCHANGED <<importHist, nonMigVars>>

\* db.js:116  `await ready` returns: no unit is pending any more
RunDone ==
    /\ pc = "run"
    /\ pending = <<>>
    /\ pc' = "ready"
    /\ UNCHANGED <<ledger, applied, umzugJsonExists, umzugJson, migrationFiles,
                   executedMigrations, oldMigrations, pending, attempted,
                   failedUnit, startedFull>>
    /\ UNCHANGED <<importHist, nonMigVars>>

\* The process ends (exit, kill, power loss) at any point; the store and the
\* legacy file stay as they are on disk.
Crash ==
    /\ pc # "down"
    /\ pc' = "down"
    /\ UNCHANGED <<ledger, applied, umzugJsonExists, umzugJson, migrationFiles,
                   executedMigrations, oldMigrations, pending, attempted,
                   failedUnit, startedFull>>
    /\ UNCHANGED <<importHist, nonMigVars>>

MigNext ==
    \/ Start
    \/ ImportInsert
    \/ ImportUnlink
    \/ UmzugUp
    \/ RunUpOk
    \/ RunUpThrows
    \/ RunLog
    \/ RunDone
    \/ Crash

(***************************************************************************)
(* utils/backup.js: archives and retention.  Sizes are counted in units of *)
(* 100 MiB, so the limit of 500 * 1024 * 1024 bytes is 5.                  *)
(***************************************************************************)
BACKUP_LIMIT_BYTES == 5

\* Bounds of the model: the clock readings and the archive sizes tried.
MaxClock == 3

MaxSize == 3

\* Sizes an archive can have, one of them over the whole limit.
Sizes == (1..MaxSize) \cup {BACKUP_LIMIT_BYTES + 1}

NoFiles == [n \in {} |-> None]

Put(f, k, v) == [x \in DOMAIN f \cup {k} |-> IF x = k THEN v ELSE f[x]]

Remove(f, S) == [x \in DOMAIN f \ S |-> f[x]]

RECURSIVE SumSizes(_, _)
SumSizes(f, S) ==
    IF S = {} THEN 0
    ELSE LET n == CHOOSE x \in S : TRUE
         IN  f[n].size + SumSizes(f, S \ {n})

\* name -> size of the directory content f
SizesOf(f) == [n \in DOMAIN f |-> [size |-> f[n].size]]

\* backup.js:67-70  totalBackupSize over the directory content f
TotalBackupSize(f) == SumSizes(f, DOMAIN f)

\* A buggy variant: the listing is sorted newest first.
RECURSIVE SortedByMtime_NewestFirst(_, _)
SortedByMtime_NewestFirst(f, S) ==
    IF S = {} THEN {<<>>}
    ELSE UNION {{<<n>> \o rest : rest \in SortedByMtime_NewestFirst(f, S \ {n})} :
                  n \in {x \in S : \A y \in S : f[x].mtime >= f[y].mtime}}

\* backup.js:48-64  listBackups: the .zip files, oldest first by mtime; files
\* of equal mtime stay in the order readdir returned them.
RECURSIVE SortedByMtime(_, _)
SortedByMtime(f, S) ==
    IF S = {} THEN {<<>>}
    ELSE UNION {{<<n>> \o rest : rest \in SortedByMtime(f, S \ {n})} :
                  n \in {x \in S : \A y \in S : f[x].mtime <= f[y].mtime}}

ListBackups(f) == SortedByMtime(f, DOMAIN f)

\* A buggy variant: the incoming size is left out of the test.
WithinLimit_IgnoresNew(total, newFileSize) == total <= BACKUP_LIMIT_BYTES

\* backup.js:77  the test that ends the eviction loop
WithinLimit(total, newFileSize) == total + newFileSize <= BACKUP_LIMIT_BYTES

\* backup.js:76-80  the eviction loop over the listing `backups`; the result
\* is the list of the names it unlinks, in order.
RECURSIVE EvictLoop(_, _, _, _)
EvictLoop(backups, f, total, newFileSize) ==
    IF backups = <<>> THEN <<>>
    ELSE IF WithinLimit(total, newFileSize) THEN <<>>
    ELSE <<Head(backups)>> \o
         EvictLoop(Tail(backups), f, total - f[Head(backups)].size, newFileSize)

\* backup.js:73-81  cleanupBackupsForLimit on directory content f, with the
\* listing `backups` that listBackups returned
CleanupBackupsForLimit(backups, f, newFileSize) ==
    EvictLoop(backups, f, TotalBackupSize(f), newFileSize)

\* archiver's directory(): the entries below the directory; an empty tree
\* contributes no member.
DirectoryMember(tree) == IF tree = "empty" THEN None ELSE tree

\* backup.js:98  backup-<ISO timestamp>.zip
CreateName(t) == [kind |-> "iso", t |-> t]

\* server.js:1017  backup-<Date.now()>.zip
SaveName(t) == [kind |-> "ms", t |-> t]

\* The live state: the store file, the images tree, the uploads directory.
Live == [db |-> liveDb, images |-> liveImages, uploads |-> liveUploads]

\* no name, no members, no directory
NoName == [kind |-> None, t |-> 0]

NoMembers == [db |-> None, images |-> None, uploads |-> None]

NoDir == [dir |-> None, t |-> 0]

NoRestore ==
    [impl |-> None, source |-> None, name |-> NoName, archive |-> NoMembers,
     extractDir |-> NoDir, fault |-> FALSE, threw |-> FALSE, failPhase |-> None]

\* no bulk delete has run
NoBulk == [impl |-> None]

\* no operation on a name has run
NoAccess == [op |-> None]

\* The createBackup calls that can be in progress at a time: routes/admin.js:793
\* does not await the call, so a second request can start one before the first
\* has ended.
Builders == {"b1", "b2"}

\* The restoreBackup calls that can be in progress at a time: each request
\* of POST /restore or POST /restore-selected starts one.
Callers == {"p1", "p2"}

\* no restoreBackup call made
NoCall == [pc |-> "idle", archive |-> NoMembers, threw |-> FALSE]

\* no call in progress
NoBuild == [pc |-> "idle", name |-> NoName, rejected |-> FALSE, evicted |-> <<>>]

\* db.js:28-29, utils/categories.js:13  nothing required, no statement run
NoGate == [ready |-> "unloaded", stmt |-> None]

MaxCatVersion == 2

MaxInvalidations == 2

\* categoryCache.js:7  in ticks of the clock of the cache
CATEGORY_CACHE_TTL == 1

\* Date.now() at the start: far above the time to live
CacheEpoch == 2

MaxCacheClock == 3

Readers == {"g1", "g2"}

NoList == -1

\* categoryCache.js:5-6  categoryCache = null, categoryCacheTime = 0.  `store`
\* is the version of the category list in the store, `inv` the number of
\* invalidations that have returned, `epoch` the value of `inv` when the cached
\* list was read from the store.
NoCache == [store |-> 0, list |-> NoList, epoch |-> 0, time |-> 0, now |-> CacheEpoch,
            inv |-> 0]

NoRefresh == [pc |-> "idle", now |-> 0, startInv |-> 0, list |-> NoList, epoch |-> 0]

BackupInit ==
    /\ clock = 0
    /\ files = NoFiles
    /\ liveDb = "db1"
    /\ liveImages = "img1"
    /\ liveUploads = "empty"
    /\ lastOp = [op |-> None]
    /\ rpc = "Idle"
    /\ r = NoRestore
    /\ staging = NoFiles
    /\ uploadFile = FALSE
    /\ pre = Live
    /\ bdir = {}
    /\ bulkOp = NoBulk
    /\ access = NoAccess
    /\ build = [b \in Builders |-> NoBuild]
    /\ partial = {}
    /\ calls = [p \in Callers |-> NoCall]
    /\ gate = NoGate
    /\ cache = NoCache
    /\ refresh = [g \in Readers |-> NoRefresh]

\* time passes
Tick ==
    /\ clock < MaxClock
    /\ clock' = clock + 1
    /\ UNCHANGED <<files, lastOp, migVars, opVars, liveVars, restoreVars>>

\* backup.js:93-121  createBackup with both sources readable: the archive is
\* written to BACKUP_DIR, then on 'close' cleanupBackupsForLimit(stat.size)
\* runs and the promise resolves with the name.
CreateBackup ==
    /\ rpc = "Idle"
    /\ liveDb # "missing"
    /\ liveImages # "missing"
    /\ \E size \in Sizes :
         LET filename == CreateName(clock)
             written  == Put(files, filename,
                             [size |-> size, mtime |-> clock, db |-> liveDb,
                              images |-> DirectoryMember(liveImages),
                              uploads |-> None])
         IN  \E backups \in ListBackups(written) :
               LET evicted == CleanupBackupsForLimit(backups, written, size)
               IN  /\ files' = Remove(written, Range(evicted))
                   /\ lastOp' = [op |-> "createBackup", name |-> filename,
                                 size |-> size,
                                 stored |-> SizesOf(Remove(files, {filename})),
                                 live |-> Live,
                                 evicted |-> evicted]
    /\ UNCHANGED <<clock, migVars, opVars, liveVars, restoreVars>>

\* server.js:976-1018 with backup.js:84-90  POST /admin/backup: the archive is
\* built in memory, saveBackup evicts for buffer.length and writes the file.
SaveBackup ==
    /\ rpc = "Idle"
    /\ \E size \in Sizes :
         LET filename == SaveName(clock)
             member(x) == IF x = "missing" THEN None ELSE DirectoryMember(x)
         IN  \E backups \in ListBackups(files) :
               LET evicted == CleanupBackupsForLimit(backups, files, size)
               IN  /\ files' = Put(Remove(files, Range(evicted)), filename,
                                   [size |-> size, mtime |-> clock,
                                    db |-> IF liveDb = "missing" THEN None ELSE liveDb,
                                    images |-> member(liveImages),
                                    uploads |-> member(liveUploads)])
                   /\ lastOp' = [op |-> "saveBackup", name |-> filename,
                                 size |-> size,
                                 stored |-> SizesOf(Remove(files, {filename})),
                                 live |-> Live,
                                 evicted |-> evicted]
    /\ UNCHANGED <<clock, migVars, opVars, liveVars, restoreVars>>

BackupNext ==
    \/ Tick
    \/ CreateBackup
    \/ SaveBackup

\* backup.js:149, routes/admin.js:842  backups-bulk-<Date.now()>.zip
BulkName(t) == [kind |-> "bulk", t |-> t]

\* the archives that createBackup and saveBackup write
Snapshots(f) == {n \in DOMAIN f : n.kind \in {"iso", "ms"}}

\* backup.js:147-168, routes/admin.js:840-854  the download of several
\* archives: a container named after the clock is written to BACKUP_DIR with
\* the requested files that exist as its entries; its size is theirs.
BulkDownloadBackups ==
    /\ rpc = "Idle"
    /\ \E filenames \in SUBSET Snapshots(files) :
         /\ filenames # {}
         /\ files' = Put(files, BulkName(clock),
                         [size |-> SumSizes(files, filenames), mtime |-> clock,
                          db |-> None, images |-> None, uploads |-> None])
         /\ lastOp' = [op |-> "bulkDownload", name |-> BulkName(clock)]
    /\ UNCHANGED <<clock, migVars, opVars, liveVars, restoreVars>>

\* routes/admin.js:855-857  the callback of res.download, once the transfer is
\* over: fs.unlinkSync(archivePath).  backup.js has no such step.
UnlinkContainer ==
    /\ rpc = "Idle"
    /\ \E n \in DOMAIN files :
         /\ n.kind = "bulk"
         /\ files' = Remove(files, {n})
         /\ lastOp' = [op |-> "unlinkContainer", name |-> n]
    /\ UNCHANGED <<clock, migVars, opVars, liveVars, restoreVars>>

ContainerNext ==
    \/ Tick
    \/ CreateBackup
    \/ BulkDownloadBackups
    \/ UnlinkContainer


(***************************************************************************)
(* Restore.  Two implementations exist: restoreBackup of utils/backup.js,  *)
(* called by routes/admin.js ("utils"), and the inline handlers of         *)
(* server.js ("server").  One restore runs at a time here.                 *)
(***************************************************************************)
Impls == {"utils", "server"}

\* The archives an operator can upload: gallery.db absent, "foreign" (a file
\* without the admin table) or a store of the application; images/ and
\* uploads/ absent or present.
UploadArchives ==
    [db : {None, "foreign", "db2"}, images : {None, "img1"}, uploads : {None, "upl1"}]

Members(a) == [db |-> a.db, images |-> a.images, uploads |-> a.uploads]

\* backup.js:173 data/tmp-restore; server.js:1090 public/uploads/restore-tmp-<now>
ExtractDir(impl, now) ==
    IF impl = "utils" THEN [dir |-> "tmp-restore", t |-> 0]
    ELSE [dir |-> "restore-tmp", t |-> now]

\* the application changes the gallery (categories, images, about image)
MutateLive ==
    /\ rpc = "Idle"
    /\ liveDb \in {"db1", "db2"}
    /\ \E d \in {"db1", "db2"}, i \in {"img1", "empty"}, u \in {"empty", "upl1"} :
          /\ <<d, i, u>> # <<liveDb, liveImages, liveUploads>>
          /\ liveDb' = d
          /\ liveImages' = i
          /\ liveUploads' = u
    /\ UNCHANGED <<migVars, opVars, backupVars, restoreVars>>

\* routes/admin.js:866-869, server.js:1087-1094  POST /restore with an uploaded
\* file: multer has stored the upload; the staging directory is created.
PostRestore ==
    /\ rpc = "Idle"
    /\ \E impl \in Impls, a \in UploadArchives :
          /\ r' = [NoRestore EXCEPT !.impl = impl, !.source = "upload",
                                    !.archive = a,
                                    !.extractDir = ExtractDir(impl, clock)]
          /\ staging' = Put(staging, ExtractDir(impl, clock), NoMembers)
    /\ uploadFile' = TRUE
    /\ pre' = Live
    /\ rpc' = "Extracting"
    /\ UNCHANGED <<migVars, opVars, backupVars, liveVars>>

\* routes/admin.js:878-884, server.js:1193-1205  POST /restore-selected for a
\* stored archive that exists
PostRestoreSelected ==
    /\ rpc = "Idle"
    /\ \E impl \in Impls, name \in DOMAIN files :
          /\ r' = [NoRestore EXCEPT !.impl = impl, !.source = "stored",
                                    !.name = name, !.archive = Members(files[name]),
                                    !.extractDir = ExtractDir(impl, clock)]
          /\ staging' = Put(staging, ExtractDir(impl, clock), NoMembers)
    /\ pre' = Live
    /\ rpc' = "Extracting"
    /\ UNCHANGED <<migVars, opVars, backupVars, liveVars, uploadFile>>

\* routes/admin.js:882, server.js:1199  the named archive is not in BACKUP_DIR:
\* the route answers 'Backup not found'
PostRestoreSelectedNotFound ==
    /\ rpc = "Idle"
    /\ lastOp.op # None
    /\ lastOp.name \notin DOMAIN files
    /\ \E impl \in Impls :
          r' = [NoRestore EXCEPT !.impl = impl, !.source = "stored",
                                 !.name = lastOp.name, !.threw = TRUE,
                                 !.failPhase = "Route"]
    /\ pre' = Live
    /\ rpc' = "Failed"
    /\ UNCHANGED <<migVars, opVars, backupVars, liveVars, staging, uploadFile>>

\* backup.js:176-181, server.js:1095-1097  the archive is unpacked into the
\* staging directory
ExtractOk ==
    /\ rpc = "Extracting"
    /\ staging' = Put(staging, r.extractDir, r.archive)
    /\ rpc' = IF r.impl = "server" THEN "Validating" ELSE "SwapDb"
    /\ UNCHANGED <<migVars, opVars, backupVars, liveVars, r, uploadFile, pre>>

\* the read stream or the unzipper fails
ExtractFails ==
    /\ rpc = "Extracting"
    /\ r' = [r EXCEPT !.fault = TRUE, !.threw = TRUE, !.failPhase = "Extracting"]
    /\ rpc' = "CleaningUp"
    /\ UNCHANGED <<migVars, opVars, backupVars, liveVars, staging, uploadFile, pre>>

\* server.js:1101-1108  gallery.db is there and has the admin table
ValidDb(db) == db # None /\ db # "foreign"

\* A buggy variant: the staged store is copied before it is validated.
Validate_AfterCopy ==
    /\ rpc = "Validating"
    /\ LET staged == staging[r.extractDir]
       IN  /\ liveDb' = IF staged.db # None THEN staged.db ELSE liveDb
           /\ IF ValidDb(staged.db)
                 THEN rpc' = "SwapImages" /\ r' = r
                 ELSE /\ rpc' = "CleaningUp"
                      /\ r' = [r EXCEPT !.threw = TRUE, !.failPhase = "Validating"]
    /\ UNCHANGED <<migVars, opVars, backupVars, liveImages, liveUploads, staging,
                   uploadFile, pre>>

\* server.js:1099-1111  validation of the staged gallery.db
Validate ==
    /\ rpc = "Validating"
    /\ IF ValidDb(staging[r.extractDir].db)
          THEN rpc' = "SwapDb" /\ r' = r
          ELSE /\ rpc' = "CleaningUp"
               /\ r' = [r EXCEPT !.threw = TRUE, !.failPhase = "Validating"]
    /\ UNCHANGED <<migVars, opVars, backupVars, liveVars, staging, uploadFile, pre>>

\* backup.js:183-189, server.js:1113-1115  the staged store file is copied
\* over the live one; restoreBackup skips the copy when there is none
CopyDbOk ==
    /\ rpc = "SwapDb"
    /\ LET staged == staging[r.extractDir]
       IN  liveDb' = IF staged.db # None THEN staged.db ELSE liveDb
    /\ rpc' = "SwapImages"
    /\ UNCHANGED <<migVars, opVars, backupVars, liveImages, liveUploads, r, staging,
                   uploadFile, pre>>

\* copyFile fails; the destination is as before or left incomplete
CopyDbFails ==
    /\ rpc = "SwapDb"
    /\ staging[r.extractDir].db # None
    /\ liveDb' \in {liveDb, "corrupt"}
    /\ r' = [r EXCEPT !.fault = TRUE, !.threw = TRUE, !.failPhase = "Swapping"]
    /\ rpc' = "CleaningUp"
    /\ UNCHANGED <<migVars, opVars, backupVars, liveImages, liveUploads, staging,
                   uploadFile, pre>>

\* the phase that follows the images swap
AfterImages(impl) == IF impl = "server" THEN "SwapUploads" ELSE "CleaningUp"

\* backup.js:193-195, server.js:1120  the archive had no images member
SkipImages ==
    /\ rpc = "SwapImages"
    /\ staging[r.extractDir].images = None
    /\ rpc' = AfterImages(r.impl)
    /\ UNCHANGED <<migVars, opVars, backupVars, liveVars, r, staging, uploadFile, pre>>

\* backup.js:196-199, server.js:1121-1123  the live images tree is removed
RemoveLiveImages ==
    /\ rpc = "SwapImages"
    /\ staging[r.extractDir].images # None
    /\ liveImages' = "missing"
    /\ rpc' = "RenameImages"
    /\ UNCHANGED <<migVars, opVars, backupVars, liveDb, liveUploads, r, staging,
                   uploadFile, pre>>

\* the removal of the live images tree fails
RemoveLiveImagesFails ==
    /\ rpc = "SwapImages"
    /\ staging[r.extractDir].images # None
    /\ liveImages # "missing"
    /\ r' = [r EXCEPT !.fault = TRUE, !.threw = TRUE, !.failPhase = "Swapping"]
    /\ rpc' = "CleaningUp"
    /\ UNCHANGED <<migVars, opVars, backupVars, liveVars, staging, uploadFile, pre>>

\* backup.js:200, server.js:1125  the staged tree is renamed into place
RenameImagesOk ==
    /\ rpc = "RenameImages"
    /\ liveImages' = staging[r.extractDir].images
    /\ staging' = [staging EXCEPT ![r.extractDir].images = None]
    /\ rpc' = AfterImages(r.impl)
    /\ UNCHANGED <<migVars, opVars, backupVars, liveDb, liveUploads, r, uploadFile, pre>>

\* server.js:1127  the error codes that start the copy fallback
FallbackCodes == {"EPERM", "EACCES", "ENOTEMPTY"}

\* backup.js:200, server.js:1126-1146  rename fails with `code`: restoreBackup
\* throws; the server handlers copy the tree and remove the source for the
\* fallback codes, and throw for every other code
RenameImagesFails ==
    /\ rpc = "RenameImages"
    /\ \E code \in {"EXDEV", "EPERM"} :
          IF r.impl = "server" /\ code \in FallbackCodes
             THEN /\ liveImages' = staging[r.extractDir].images
                  /\ staging' = [staging EXCEPT ![r.extractDir].images = None]
                  /\ r' = [r EXCEPT !.fault = TRUE]
                  /\ rpc' = AfterImages(r.impl)
             ELSE /\ r' = [r EXCEPT !.fault = TRUE, !.threw = TRUE,
                                    !.failPhase = "Swapping"]
                  /\ rpc' = "CleaningUp"
                  /\ UNCHANGED <<liveImages, staging>>
    /\ UNCHANGED <<migVars, opVars, backupVars, liveDb, liveUploads, uploadFile, pre>>

\* server.js:1152  the archive had no uploads member
SkipUploads ==
    /\ rpc = "SwapUploads"
    /\ staging[r.extractDir].uploads = None
    /\ rpc' = "CleaningUp"
    /\ UNCHANGED <<migVars, opVars, backupVars, liveVars, r, staging, uploadFile, pre>>

\* server.js:1150-1178  public/uploads is removed, and with it the staging
\* directory and the uploaded file, which lie inside it; the rename of the
\* staged uploads then fails with ENOENT, which is rethrown
ReplaceUploads ==
    /\ rpc = "SwapUploads"
    /\ staging[r.extractDir].uploads # None
    /\ liveUploads' = "missing"
    /\ staging' = Remove(staging, {r.extractDir})
    /\ uploadFile' = IF r.source = "upload" THEN FALSE ELSE uploadFile
    /\ r' = [r EXCEPT !.threw = TRUE, !.failPhase = "Swapping"]
    /\ rpc' = "CleaningUp"
    /\ UNCHANGED <<migVars, opVars, backupVars, liveDb, liveImages, pre>>

\* A buggy variant: the staging directory is removed only after success.
RemoveStaging_OnSuccess(dirs, dir, threw) ==
    IF threw THEN dirs ELSE Remove(dirs, {dir})

\* backup.js:202-206, server.js:1186-1190  finally: the staging directory is
\* removed if it exists
RemoveStaging(dirs, dir, threw) == Remove(dirs, {dir})

\* backup.js:202-206 with routes/admin.js:870-874; server.js:1182-1190
\* the finally block and the answer of the route.  server.js unlinks the
\* uploaded file in finally, routes/admin.js after a success only.
Cleanup ==
    /\ rpc = "CleaningUp"
    /\ staging' = RemoveStaging(staging, r.extractDir, r.threw)
    /\ uploadFile' = IF r.source = "upload" /\ (r.impl = "server" \/ ~r.threw)
                        THEN FALSE ELSE uploadFile
    /\ rpc' = IF r.threw THEN "Failed" ELSE "Done"
    /\ UNCHANGED <<migVars, opVars, backupVars, liveVars, r, pre>>

\* the request is answered; the next one can begin
RestoreReturn ==
    /\ rpc \in {"Done", "Failed"}
    /\ rpc' = "Idle"
    /\ r' = NoRestore
    /\ pre' = Live
    /\ UNCHANGED <<migVars, opVars, backupVars, liveVars, staging, uploadFile>>

RestoreNext ==
    \/ MutateLive
    \/ CreateBackup
    \/ PostRestore
    \/ PostRestoreSelected
    \/ PostRestoreSelectedNotFound
    \/ ExtractOk
    \/ ExtractFails
    \/ Validate
    \/ CopyDbOk
    \/ CopyDbFails
    \/ SkipImages
    \/ RemoveLiveImages
    \/ RemoveLiveImagesFails
    \/ RenameImagesOk
    \/ RenameImagesFails
    \/ SkipUploads
    \/ ReplaceUploads
    \/ Cleanup
    \/ RestoreReturn

(***************************************************************************)
(* Bulk delete.  Three implementations exist: bulkDeleteBackups of         *)
(* utils/backup.js ("utils"), the handler of routes/admin.js ("admin") and *)
(* the handler of server.js ("server").  A file name is the sequence of    *)
(* its characters.                                                         *)
(***************************************************************************)
BulkImpls == {"utils", "admin", "server"}

\* Bound of the model: the length of the list of names of one request.
MaxList == 2

\* \w of a JavaScript regular expression, as far as the names here use it
WordChars == {"b", "1", "2", "z", "i", "p", "t"}

ZipSuffix == <<".", "z", "i", "p">>

\* String.prototype.includes
Includes(str, sub) ==
    \E i \in 1..(Len(str) - Len(sub) + 1) : SubSeq(str, i, i + Len(sub) - 1) = sub

\* backup.js:125, routes/admin.js:831  /^[\w.-]+\.zip$/.test(filename)
StrictPattern(filename) ==
    /\ Len(filename) > Len(ZipSuffix)
    /\ SubSeq(filename, Len(filename) - 3, Len(filename)) = ZipSuffix
    /\ \A i \in 1..(Len(filename) - Len(ZipSuffix)) :
          filename[i] \in WordChars \cup {".", "-"}

\* server.js:1057  the names the handler skips
TraversalFilter(filename) ==
    \/ Includes(filename, <<"/">>)
    \/ Includes(filename, <<"\\">>)
    \/ Includes(filename, <<".", ".">>)

\* backup-1.zip and backup-2.zip (createBackup, saveBackup), written short
ArchiveNames == {<<"b", "1", ".", "z", "i", "p">>, <<"b", "2", ".", "z", "i", "p">>}

\* routes/admin.js:773  multer stores an upload under a random name without
\* extension in BACKUP_DIR
TempName == <<"t">>

\* the names that files of BACKUP_DIR can have
DirNames == ArchiveNames \cup {TempName}

\* "../p", a file next to BACKUP_DIR, and ".", BACKUP_DIR itself
TraversalName == <<".", ".", "/", "p">>

DotName == <<".">>

\* the names a request can carry
RequestNames == DirNames \cup {TraversalName, DotName}

RequestLists == UNION {[1..k -> RequestNames] : k \in 1..MaxList}

\* path.join(BACKUP_DIR, filename): a file of the directory, the directory
\* itself, or a path outside of it
Resolve(filename) ==
    IF filename = DotName THEN "directory"
    ELSE IF Includes(filename, <<"/">>) THEN "outside"
    ELSE "inside"

\* fs.existsSync / a successful fs.unlink of the resolved path; the file
\* outside of the directory exists
Exists(dir, filename) ==
    CASE Resolve(filename) = "inside" -> filename \in dir
      [] Resolve(filename) = "directory" -> TRUE
      [] OTHER -> TRUE

\* the state of one bulk delete: directory content, count, whether the file
\* outside was unlinked, whether an exception left the loop
BulkStart(dir) == [dir |-> dir, deleted |-> 0, outside |-> FALSE, threw |-> FALSE]

\* unlink of a path that exists: a file goes away, a directory makes unlink throw
Unlink(st, filename) ==
    CASE Resolve(filename) = "inside" ->
            [st EXCEPT !.dir = @ \ {filename}, !.deleted = @ + 1]
      [] Resolve(filename) = "outside" ->
            [st EXCEPT !.outside = TRUE, !.deleted = @ + 1]
      [] OTHER -> [st EXCEPT !.threw = TRUE]

\* backup.js:124-133 and 138-142  deleteBackup inside the try of the loop:
\* an invalid name throws and is skipped, a failed unlink counts nothing
DeleteUtils(st, filename) ==
    IF ~StrictPattern(filename) THEN st
    ELSE IF Exists(st.dir, filename) /\ Resolve(filename) # "directory"
            THEN Unlink(st, filename)
            ELSE st

\* routes/admin.js:830-838
DeleteAdmin(st, filename) ==
    IF StrictPattern(filename) /\ Exists(st.dir, filename)
       THEN Unlink(st, filename) ELSE st

\* server.js:1056-1063
DeleteServer(st, filename) ==
    IF TraversalFilter(filename) THEN st
    ELSE IF Exists(st.dir, filename) THEN Unlink(st, filename) ELSE st

\* the loop over the names; an exception that nothing catches ends it
RECURSIVE BulkLoop(_, _, _)
BulkLoop(impl, filenames, st) ==
    IF filenames = <<>> \/ st.threw THEN st
    ELSE LET n == Head(filenames)
             next == CASE impl = "utils" -> DeleteUtils(st, n)
                       [] impl = "admin" -> DeleteAdmin(st, n)
                       [] OTHER -> DeleteServer(st, n)
         IN  BulkLoop(impl, Tail(filenames), next)

\* a file appears in BACKUP_DIR: an archive is written, an upload is stored
DirPut ==
    /\ \E n \in DirNames \ bdir : bdir' = bdir \cup {n}
    /\ UNCHANGED <<bulkOp, access, buildVars, callVars, auxVars, migVars, backupVars,
                   liveVars, restoreVars>>

\* backup.js:136-144, routes/admin.js:823-839, server.js:1049-1064
BulkDelete ==
    /\ \E impl \in BulkImpls, filenames \in RequestLists :
         LET st == BulkLoop(impl, filenames, BulkStart(bdir))
         IN  /\ bdir' = st.dir
             /\ bulkOp' = [impl |-> impl, filenames |-> filenames, before |-> bdir,
                           after |-> st.dir,
                           deleted |-> st.deleted, outside |-> st.outside,
                           threw |-> st.threw]
    /\ access' = NoAccess
    /\ UNCHANGED <<buildVars, callVars, auxVars, migVars, backupVars, liveVars,
                   restoreVars>>

\* The operations that take the name of one file, and the code that
\* implements each: "utils" deleteBackup (backup.js:124) and the loop of
\* bulkDownloadBackups (backup.js:154); "admin" and "server" the routes.
NameOps ==
    {<<"delete", "utils">>, <<"delete", "admin">>, <<"delete", "server">>,
     <<"download", "admin">>, <<"download", "server">>,
     <<"bulkDownload", "utils">>, <<"bulkDownload", "admin">>,
     <<"bulkDownload", "server">>,
     <<"restoreSelected", "admin">>, <<"restoreSelected", "server">>}

\* the test of the name that lets the operation go on to the filesystem:
\* the strict pattern in backup.js (125, 155) and routes/admin.js (803, 812,
\* 848, 880), the three includes in server.js (1038, 1072, 1195), nothing in
\* GET /admin/backup/download of server.js (1028-1033)
NameAccepted(op, impl, filename) ==
    CASE impl \in {"utils", "admin"} -> StrictPattern(filename)
      [] op = "download" -> TRUE
      [] OTHER -> ~TraversalFilter(filename)

\* one operation on one name: after the test, the path is joined to BACKUP_DIR
\* and looked up (existsSync, access, unlink); a delete removes the file
AccessByName ==
    /\ \E o \in NameOps, filename \in RequestNames :
         LET op == o[1]
             impl == o[2]
             ok == NameAccepted(op, impl, filename)
             found == ok /\ Exists(bdir, filename)
         IN  /\ access' = [op |-> op, impl |-> impl, filename |-> filename,
                           tested |-> ~(impl = "server" /\ op = "download"),
                           touched |-> IF ok THEN Resolve(filename) ELSE "nothing",
                           found |-> found]
             /\ bdir' = IF op = "delete" /\ found /\ Resolve(filename) = "inside"
                           THEN bdir \ {filename} ELSE bdir
    /\ bulkOp' = NoBulk
    /\ UNCHANGED <<buildVars, callVars, auxVars, migVars, backupVars, liveVars,
                   restoreVars>>

BulkNext ==
    \/ DirPut
    \/ BulkDelete
    \/ AccessByName

(***************************************************************************)
(* createBackup of utils/backup.js, one action per stage of the stream.    *)
(***************************************************************************)

\* Bounds of the model: the clock readings and the archive sizes tried while
\* calls overlap.
MaxBuildClock == 2

MaxBuildSize == 2

BuildSizes == 1..MaxBuildSize

\* what the actions of a createBackup call leave alone
buildFrame == <<migVars, liveVars, restoreVars, bulkVars, callVars, auxVars, clock,
                lastOp>>

\* backup.js:94-99  the name is made from the clock reading.  The second of
\* the two calls is the one that starts while the first is in progress.
BuildStart(b) ==
    /\ build[b].pc = "idle"
    /\ b = "b2" => build["b1"].pc # "idle"
    /\ build' = [build EXCEPT ![b] = [NoBuild EXCEPT !.pc = "opening",
                                                     !.name = CreateName(clock)]]
    /\ UNCHANGED <<files, partial, buildFrame>>

\* backup.js:103  createWriteStream opens the file with flag 'w': it is
\* created, or emptied if it exists
BuildOpen(b) ==
    /\ build[b].pc = "opening"
    /\ files' = Put(files, build[b].name,
                    [size |-> 0, mtime |-> clock, db |-> None, images |-> None,
                     uploads |-> None])
    /\ partial' = partial \cup {build[b].name}
    /\ build' = [build EXCEPT ![b].pc = "readDb"]
    /\ UNCHANGED buildFrame

\* backup.js:114  the file cannot be opened: output emits 'error'
BuildOpenFails(b) ==
    /\ build[b].pc = "opening"
    /\ build' = [build EXCEPT ![b].pc = "dead", ![b].rejected = TRUE]
    /\ UNCHANGED <<files, partial, buildFrame>>

\* the content a write of the stream gives the file, if it is still in the
\* directory
Written(f, name, fields) ==
    IF name \in DOMAIN f THEN Put(f, name, fields) ELSE f

\* backup.js:117  archive.file(dbPath): the store file is read and appended; a
\* missing file is a warning of archiver and the entry is left out
BuildReadDb(b) ==
    /\ build[b].pc = "readDb"
    /\ LET name == build[b].name
       IN  files' = Written(files, name,
                       [size |-> 0, mtime |-> clock,
                        db |-> IF liveDb = "missing" THEN None ELSE liveDb,
                        images |-> None, uploads |-> None])
    /\ build' = [build EXCEPT ![b].pc = "readImages"]
    /\ UNCHANGED <<partial, buildFrame>>

\* backup.js:118  archive.directory(imagesDir): the tree is read and appended,
\* the file has its full length; a missing directory is an error of archiver
BuildReadImages(b) ==
    /\ build[b].pc = "readImages"
    /\ LET name == build[b].name
       IN  IF liveImages = "missing"
              THEN /\ build' = [build EXCEPT ![b].pc = "dead", ![b].rejected = TRUE]
                   /\ UNCHANGED files
              ELSE /\ \E size \in BuildSizes :
                        files' = Written(files, name,
                                    [size |-> size, mtime |-> clock,
                                     db |-> IF name \in DOMAIN files
                                               THEN files[name].db ELSE None,
                                     images |-> DirectoryMember(liveImages),
                                     uploads |-> None])
                   /\ build' = [build EXCEPT ![b].pc = "finalizing"]
    /\ UNCHANGED <<partial, buildFrame>>

\* backup.js:114-115  a source cannot be read or the output stream fails while
\* the archive is streamed: the promise is rejected; the stream, once
\* destroyed, may still emit 'close'
BuildStreamFails(b) ==
    /\ build[b].pc \in {"readDb", "readImages", "finalizing"}
    /\ \E next \in {"dead", "closed"} :
          build' = [build EXCEPT ![b].pc = next, ![b].rejected = TRUE]
    /\ UNCHANGED <<files, partial, buildFrame>>

\* backup.js:119 and 105  finalize: the last bytes are written, output closes
BuildClose(b) ==
    /\ build[b].pc = "finalizing"
    /\ LET name == build[b].name
       IN  /\ files' = IF name \in DOMAIN files
                          THEN [files EXCEPT ![name].mtime = clock] ELSE files
           /\ partial' = partial \ {name}
    /\ build' = [build EXCEPT ![b].pc = "closed"]
    /\ UNCHANGED buildFrame

\* backup.js:105-112  the 'close' handler: stat, cleanupBackupsForLimit with
\* the size of the file, resolve with the name; stat throws when the file is
\* not there any more
BuildCleanup(b) ==
    /\ build[b].pc = "closed"
    /\ LET name == build[b].name
       IN  IF name \notin DOMAIN files
              THEN /\ build' = [build EXCEPT ![b].pc = "settled", ![b].rejected = TRUE]
                   /\ UNCHANGED <<files, partial>>
              ELSE \E backups \in ListBackups(files) :
                     LET evicted == CleanupBackupsForLimit(backups, files,
                                                           files[name].size)
                     IN  /\ files' = Remove(files, Range(evicted))
                         /\ partial' = partial \ Range(evicted)
                         /\ build' = [build EXCEPT ![b].pc = "settled",
                                                   ![b].evicted = evicted]
    /\ UNCHANGED buildFrame

\* the promise is settled and nothing of the call is left
BuildReturn(b) ==
    /\ build[b].pc \in {"settled", "dead"}
    /\ build' = [build EXCEPT ![b] = NoBuild]
    /\ UNCHANGED <<files, partial, buildFrame>>

\* time passes while calls are in progress
BuildTick ==
    /\ clock < MaxBuildClock
    /\ clock' = clock + 1
    /\ UNCHANGED <<files, lastOp, migVars, liveVars, restoreVars, opVars>>

BuildNext ==
    \/ BuildTick
    \/ \E b \in Builders :
          \/ BuildStart(b)
          \/ BuildOpen(b)
          \/ BuildOpenFails(b)
          \/ BuildReadDb(b)
          \/ BuildReadImages(b)
          \/ BuildStreamFails(b)
          \/ BuildClose(b)
          \/ BuildCleanup(b)
          \/ BuildReturn(b)

(***************************************************************************)
(* restoreBackup of utils/backup.js, one action per awaited stage, for     *)
(* calls that overlap.  Every call uses the one directory data/tmp-restore. *)
(***************************************************************************)

\* the archives restored: each holds a store file and an images tree
CallArchives ==
    {[db |-> "dbA", images |-> "imgA", uploads |-> None],
     [db |-> "dbB", images |-> "imgB", uploads |-> None]}

\* backup.js:173  path.join(__dirname, '..', 'data', 'tmp-restore')
TmpRestore == ExtractDir("utils", 0)

\* the content of data/tmp-restore, or nothing when the directory is not there
Staged == IF TmpRestore \in DOMAIN staging THEN staging[TmpRestore] ELSE NoMembers

\* unzipper.Extract into a directory that holds `old`: gallery.db is
\* overwritten, the files of images/ are added to those already there
ExtractOver(old, a) ==
    [db |-> a.db,
     images |-> IF old.images \in {None, a.images} THEN a.images ELSE "mixed",
     uploads |-> None]

\* what the actions of a restoreBackup call leave alone
callFrame == <<migVars, backupVars, bulkVars, buildVars, auxVars, rpc, r, uploadFile,
               pre, liveUploads>>

\* A buggy variant: a call waits until no other call is in progress.
RestoreCall_Exclusive(p) ==
    /\ calls[p].pc = "idle"
    /\ \A q \in Callers : calls[q].pc \in {"idle", "done", "failed"}
    /\ \E a \in CallArchives :
          calls' = [calls EXCEPT ![p] = [NoCall EXCEPT !.pc = "extract",
                                                       !.archive = a]]
    /\ staging' = Put(staging, TmpRestore, Staged)
    /\ UNCHANGED <<liveDb, liveImages, callFrame>>

\* backup.js:171-175  restoreBackup(backupPath): mkdir of the staging directory
RestoreCall(p) ==
    /\ calls[p].pc = "idle"
    /\ \E a \in CallArchives :
          calls' = [calls EXCEPT ![p] = [NoCall EXCEPT !.pc = "extract",
                                                       !.archive = a]]
    /\ staging' = Put(staging, TmpRestore, Staged)
    /\ UNCHANGED <<liveDb, liveImages, callFrame>>

\* backup.js:176-181  the archive is unpacked into the staging directory
RestoreExtract(p) ==
    /\ calls[p].pc = "extract"
    /\ staging' = Put(staging, TmpRestore, ExtractOver(Staged, calls[p].archive))
    /\ calls' = [calls EXCEPT ![p].pc = "copyDb"]
    /\ UNCHANGED <<liveDb, liveImages, callFrame>>

\* backup.js:183-189  the staged gallery.db, if there is one, is copied over
\* the live store file
RestoreCopyDb(p) ==
    /\ calls[p].pc = "copyDb"
    /\ liveDb' = IF Staged.db # None THEN Staged.db ELSE liveDb
    /\ calls' = [calls EXCEPT ![p].pc = "removeImages"]
    /\ UNCHANGED <<liveImages, staging, callFrame>>

\* backup.js:191-199  the staged images tree is looked for and, if it is
\* there, the live tree is removed
RestoreRemoveImages(p) ==
    /\ calls[p].pc = "removeImages"
    /\ IF Staged.images = None
          THEN /\ calls' = [calls EXCEPT ![p].pc = "finally"]
               /\ UNCHANGED liveImages
          ELSE /\ calls' = [calls EXCEPT ![p].pc = "rename"]
               /\ liveImages' = "missing"
    /\ UNCHANGED <<liveDb, staging, callFrame>>

\* backup.js:200  fs.rename(imagesSrc, imagesDest): ENOENT when the staged tree
\* is gone, ENOTEMPTY when another call has put a tree in place meanwhile
RestoreRename(p) ==
    /\ calls[p].pc = "rename"
    /\ IF Staged.images = None \/ liveImages \notin {"missing", "empty"}
          THEN /\ calls' = [calls EXCEPT ![p].pc = "finally", ![p].threw = TRUE]
               /\ UNCHANGED <<liveImages, staging>>
          ELSE /\ liveImages' = Staged.images
               /\ staging' = [staging EXCEPT ![TmpRestore].images = None]
               /\ calls' = [calls EXCEPT ![p].pc = "finally"]
    /\ UNCHANGED <<liveDb, callFrame>>

\* backup.js:202-206  finally: the staging directory is removed
RestoreFinally(p) ==
    /\ calls[p].pc = "finally"
    /\ staging' = Remove(staging, {TmpRestore})
    /\ calls' = [calls EXCEPT ![p].pc = IF calls[p].threw THEN "failed" ELSE "done"]
    /\ UNCHANGED <<liveDb, liveImages, callFrame>>

\* the createBackup call that runs beside the restores
CallBuilder == "b1"

CallNext ==
    \/ \E p \in Callers :
          \/ RestoreCall(p)
          \/ RestoreExtract(p)
          \/ RestoreCopyDb(p)
          \/ RestoreRemoveImages(p)
          \/ RestoreRename(p)
          \/ RestoreFinally(p)
    \/ BuildStart(CallBuilder)
    \/ BuildOpen(CallBuilder)
    \/ BuildOpenFails(CallBuilder)
    \/ BuildReadDb(CallBuilder)
    \/ BuildReadImages(CallBuilder)
    \/ BuildStreamFails(CallBuilder)
    \/ BuildClose(CallBuilder)
    \/ BuildCleanup(CallBuilder)
    \/ BuildReturn(CallBuilder)

(***************************************************************************)
(* A utility module and the readiness of the store: db.js:28-134,          *)
(* utils/categories.js:13-34.  One life of the process.                    *)
(***************************************************************************)

gateFrame == <<migVars, backupVars, liveVars, restoreVars, bulkVars, buildVars,
               callVars, cache, refresh>>

\* db.js:115  `ready` is assigned when umzug.up() is called, not before
ReadyValue == IF pc \in {"run", "log", "ready", "failed"} THEN "promise" ELSE "undefined"

\* utils/categories.js:13  const { getDb, ready } = require('../db'): the getter
\* of db.js:124-126 is read once, when the module is loaded
RequireDb ==
    /\ gate.ready = "unloaded"
    /\ gate' = [gate EXCEPT !.ready = ReadyValue]
    /\ UNCHANGED gateFrame

\* db.js:129-132  getDb() throws only while `db` (db.js:49) is unassigned
GetDbThrows == pc = "down"

\* utils/categories.js:16-34  await ready; getDb(); db.prepare(query).all().
\* Awaiting a promise waits until umzug.up() settles and throws if it was
\* rejected; awaiting undefined continues at once.  `stmt` is the position of
\* the startup when the statement ran.
GetCategoriesWithPreviews ==
    /\ gate.ready # "unloaded"
    /\ \/ /\ gate.ready = "promise"
          /\ pc \in {"ready", "failed"}
          /\ gate' = [gate EXCEPT !.stmt = IF pc = "failed" THEN "threw" ELSE pc]
       \/ /\ gate.ready = "undefined"
          /\ pc # "failed"
          /\ gate' = [gate EXCEPT !.stmt = IF GetDbThrows THEN "threw" ELSE pc]
    /\ UNCHANGED gateFrame

GateNext ==
    \/ Start
    \/ ImportInsert
    \/ ImportUnlink
    \/ UmzugUp
    \/ RunUpOk
    \/ RunUpThrows
    \/ RunLog
    \/ RunDone
    \/ RequireDb
    \/ GetCategoriesWithPreviews

(***************************************************************************)
(* The category cache: utils/categoryCache.js:5-23.                        *)
(***************************************************************************)

cacheFrame == <<migVars, backupVars, liveVars, restoreVars, bulkVars, buildVars,
                callVars, gate>>

\* categoryCache.js:12  !categoryCache || now - categoryCacheTime > CATEGORY_CACHE_TTL
Expired(now) == cache.list = NoList \/ now - cache.time > CATEGORY_CACHE_TTL

\* categoryCache.js:10-12,16  the call reads the time and tests the cache; a hit
\* returns categoryCache, a miss calls getCategoriesWithPreviews and is suspended
GetCachedCategories(g) ==
    /\ refresh[g].pc \in {"idle", "returned"}
    /\ refresh' = [refresh EXCEPT ![g] =
           IF Expired(cache.now)
           THEN [pc |-> "awaiting", now |-> cache.now, startInv |-> cache.inv,
                 list |-> NoList, epoch |-> 0]
           ELSE [pc |-> "returned", now |-> cache.now, startInv |-> cache.inv,
                 list |-> cache.list, epoch |-> cache.epoch]]
    /\ UNCHANGED <<cache, cacheFrame>>

\* utils/categories.js:18-29  the statement reads the list from the store; the
\* call is suspended again at the await of its result
ReadCategories(g) ==
    /\ refresh[g].pc = "awaiting"
    /\ refresh' = [refresh EXCEPT ![g].pc = "fetched", ![g].list = cache.store,
                                  ![g].epoch = cache.inv]
    /\ UNCHANGED <<cache, cacheFrame>>

\* categoryCache.js:13-16  categoryCache = <the list>; categoryCacheTime = now;
\* return categoryCache
AssignCache(g) ==
    /\ refresh[g].pc = "fetched"
    /\ cache' = [cache EXCEPT !.list = refresh[g].list, !.epoch = refresh[g].epoch,
                              !.time = refresh[g].now]
    /\ refresh' = [refresh EXCEPT ![g].pc = "returned"]
    /\ UNCHANGED cacheFrame

\* categoryCache.js:20-23
InvalidateCategoryCache ==
    /\ cache.inv < MaxInvalidations
    /\ cache' = [cache EXCEPT !.list = NoList, !.epoch = 0, !.time = 0,
                              !.inv = cache.inv + 1]
    /\ UNCHANGED <<refresh, cacheFrame>>

\* a handler changes the categories in the store (server.js:650-901)
CategoryChange ==
    /\ cache.store < MaxCatVersion
    /\ cache' = [cache EXCEPT !.store = cache.store + 1]
    /\ UNCHANGED <<refresh, cacheFrame>>

\* time passes
CacheTick ==
    /\ cache.now < MaxCacheClock
    /\ cache' = [cache EXCEPT !.now = cache.now + 1]
    /\ UNCHANGED <<refresh, cacheFrame>>

CacheNext ==
    \/ InvalidateCategoryCache
    \/ CategoryChange
    \/ CacheTick
    \/ \E g \in Readers :
          \/ GetCachedCategories(g)
          \/ ReadCategories(g)
          \/ AssignCache(g)

Init == MigInit /\ BackupInit

SpecMig == Init /\ [][MigNext]_vars

SpecGate == Init /\ [][GateNext]_vars

\* The backup routes serve a freshly installed, started application.
InitBackup == MigInitial(FALSE) /\ BackupInit

SpecBackup == InitBackup /\ [][BackupNext]_vars

SpecCache == InitBackup /\ [][CacheNext]_vars

SpecContainer == InitBackup /\ [][ContainerNext]_vars

SpecRestore == InitBackup /\ [][RestoreNext]_vars

SpecBulk == InitBackup /\ [][BulkNext]_vars

SpecBuild == InitBackup /\ [][BuildNext]_vars

SpecCalls == InitBackup /\ [][CallNext]_vars

(***************************************************************************)
(* Properties of the startup sequence (SpecMig).                           *)
(***************************************************************************)
AllRecorded == MigrationNames \subseteq Executed(ledger)

EntriesOf(u) == {i \in DOMAIN ledger : ledger[i] = u}

\* C4 (migration idempotency): in a store whose ledger records every unit, no
\* step of a startup calls a unit's up, changes the store's schema or changes
\* the ledger, and the ledger holds exactly one entry per unit.
C4_Idempotent ==
    [][AllRecorded =>
          /\ attempted' \in {attempted, <<>>}
          /\ applied' = applied
          /\ ledger' = ledger
          /\ \A u \in MigrationNames : Cardinality(EntriesOf(u)) = 1]_vars

\* a run that started on a fully recorded store has completed
C4_Witness == startedFull /\ pc = "ready"

\* C5 (migration ordering): whatever order readdir returned, the units a run
\* has attempted so far are in ascending lexicographic order, and every unit
\* that is neither recorded nor attempted yet is greater than all of them.
C5_AscendingOrder ==
    /\ \A i, j \in DOMAIN attempted :
          i < j => LexLess(attempted[i], attempted[j])
    /\ \A u \in (MigrationNames \ Executed(ledger)) \ Range(attempted) :
          \A i \in DOMAIN attempted : LexLess(attempted[i], u)

\* a run has applied three units and two more are pending
C5_Witness == Len(attempted) = 3 /\ pc = "run" /\ Len(pending) = 2

\* C6 (stop on failure): once a unit's up has thrown in a run, no unit with a
\* larger name has been attempted in that run, the failing unit has no ledger
\* entry, and every unit applied earlier in this run or recorded before it
\* has its entry.
C6_StopOnFailure ==
    failedUnit # None =>
        /\ \A i \in DOMAIN attempted : ~LexLess(failedUnit, attempted[i])
        /\ failedUnit \notin Executed(ledger)
        /\ \A i \in DOMAIN attempted :
              attempted[i] # failedUnit => attempted[i] \in Executed(ledger)
        /\ executedMigrations \subseteq Executed(ledger)

\* a unit failed after an earlier one was applied, with later ones pending
C6_Witness ==
    /\ failedUnit # None
    /\ pc = "failed"
    /\ Len(attempted) >= 2
    /\ Len(pending) >= 2
    /\ executedMigrations # {}

\* C7 (ledger invariant), as claimed: whenever the process is not running and
\* no legacy file is waiting to be imported, the units whose up has taken
\* effect on the store are exactly the units with a ledger entry.
C7_LedgerIffApplied ==
    (pc = "down" /\ ~umzugJsonExists) => applied = Executed(ledger)

(***************************************************************************)
(* Properties of archive creation and retention (SpecBackup).              *)
(***************************************************************************)
Max(a, b) == IF a >= b THEN a ELSE b

\* C1 (retention bound): after every archive creation (createBackup or
\* saveBackup) the sizes of the archives kept in the backup directory sum to
\* at most max(limit, size of the archive just created).
C1_RetentionBound ==
    lastOp.op # None =>
        TotalBackupSize(files) <= Max(BACKUP_LIMIT_BYTES, lastOp.size)

\* a creation has evicted an older archive and kept several
C1_Witness ==
    /\ lastOp.op # None
    /\ lastOp.evicted # <<>>
    /\ Cardinality(DOMAIN files) >= 2

RECURSIVE SumFirst(_, _, _)
SumFirst(f, seq, k) ==
    IF k = 0 THEN 0 ELSE f[seq[k]].size + SumFirst(f, seq, k - 1)

\* C2 (minimal eviction), as claimed: a creation deletes an already stored
\* archive only if, at that point, the stored archives still present plus the
\* incoming archive (counted once) exceed the limit.
C2_EvictionMinimal ==
    lastOp.op # None =>
        \A i \in DOMAIN lastOp.evicted :
            lastOp.evicted[i] \in DOMAIN lastOp.stored =>
                LET gone == SelectSeq(SubSeq(lastOp.evicted, 1, i - 1),
                                      LAMBDA n : n \in DOMAIN lastOp.stored)
                IN  TotalBackupSize(lastOp.stored)
                      - SumFirst(lastOp.stored, gone, Len(gone))
                      + lastOp.size > BACKUP_LIMIT_BYTES

(***************************************************************************)
(* Properties of restore (SpecRestore).                                    *)
(***************************************************************************)
Finished == rpc \in {"Done", "Failed"}

\* the store file and the asset tree are as they were when the restore began
LiveAsBefore == liveDb = pre.db /\ liveImages = pre.images

\* C3 (validation rejects foreign input), as claimed: a restore of an archive
\* without gallery.db, or whose gallery.db lacks the admin table, ends Failed
\* with the live store file and the live asset tree as before the restore
\* (restores that met an I/O error aside).
C3_ForeignRejected ==
    (Finished /\ r.failPhase # "Route" /\ ~r.fault /\ ~ValidDb(r.archive.db)) =>
        (rpc = "Failed" /\ LiveAsBefore)

\* C8 (restore round-trip), as claimed: a restore of the archive createBackup
\* has just returned, begun in the live state the archive was built from and
\* meeting no I/O error, ends Done with the store file and the asset tree as
\* they were before the build.
C8_RoundTrip ==
    (/\ Finished
     /\ lastOp.op = "createBackup"
     /\ r.source = "stored"
     /\ r.name = lastOp.name
     /\ pre = lastOp.live
     /\ ~r.fault) =>
        (/\ rpc = "Done"
         /\ liveDb = lastOp.live.db
         /\ liveImages = lastOp.live.images)

C10_WritesOnlyInSwap ==
    /\ [](rpc = "Failed" /\ Live # pre => r.failPhase = "Swapping")
    /\ [](r.threw /\ r.failPhase \in {"Extracting", "Validating"} => Live = pre)
    /\ [][(rpc \in {"Extracting", "Validating"}) => (Live' = Live)]_vars

\* a validation failure, and a failure in the swap that left live state changed
C10_Witness ==
    \/ rpc = "Failed" /\ r.failPhase = "Validating" /\ r.archive.db = "foreign"
    \/ rpc = "Failed" /\ r.failPhase = "Swapping" /\ Live # pre

(***************************************************************************)
(* The legacy import of db.js:72-88.                                       *)
(***************************************************************************)

\* C11: when the importer step ends (the file existed and the table was
\* empty at startup), every name the legacy file listed is in the ledger and
\* the legacy file is gone.
C11_LegacyImported ==
    [][(pc = "import" /\ pc' = "umzug")
          => /\ Range(umzugJson) \subseteq Executed(ledger')
             /\ ~umzugJsonExists']_vars

\* An import of a legacy file that listed two names or more has ended.
C11_Witness ==
    /\ pc = "umzug"
    /\ executedMigrations = {}
    /\ importHist.completed /\ importHist.now
    /\ Len(ledger) >= 2
    /\ ~umzugJsonExists

\* C12: over the process starts, at most one start inserts names of the
\* legacy file, the file is deleted at most once, and no start that follows a
\* completed import enters the importer again.
C12_ImportOnce ==
    /\ ~(importHist.before /\ importHist.now)
    /\ importHist.unlinks <= 1
    /\ (importHist.completed => pc # "import")
    /\ (importHist.completed => ~umzugJsonExists)

\* A later start than the one that imported has run to the end.
C12_Witness ==
    /\ importHist.completed /\ importHist.before
    /\ pc = "ready"

\* C13: a start that finds an entry in the migrations table never enters
\* the importer, leaves the legacy file as it is and inserts none of its names.
C13_LegacyIgnored ==
    /\ [](pc = "import" => executedMigrations = {})
    /\ []((pc # "down" /\ executedMigrations # {}) => ~importHist.now)
    /\ [][(pc' # "down" /\ executedMigrations' # {})
            => /\ umzugJsonExists' = umzugJsonExists
               /\ umzugJson' = umzugJson]_vars

\* A start found both the legacy file and a non-empty table, and ran to the end
\* with the file still on disk.
C13_Witness ==
    /\ pc = "ready"
    /\ executedMigrations # {}
    /\ umzugJsonExists /\ umzugJson # <<>>

(***************************************************************************)
(* Bulk delete (SpecBulk).                                                 *)
(***************************************************************************)

\* the names of a request that the strict pattern accepts and that are files
\* of the directory
BulkTargets(filenames, dir) ==
    {n \in Range(filenames) : StrictPattern(n) /\ n \in dir}

\* C14: a bulk delete removes exactly the files of BACKUP_DIR whose names
\* are in the list and match the strict pattern, touches nothing outside,
\* goes through the whole list and returns the number of files it removed.
C14_BulkDeleteExact ==
    bulkOp.impl # None =>
        /\ bulkOp.after = bulkOp.before \ BulkTargets(bulkOp.filenames, bulkOp.before)
        /\ bulkOp.deleted = Cardinality(BulkTargets(bulkOp.filenames, bulkOp.before))
        /\ ~bulkOp.outside
        /\ ~bulkOp.threw

(***************************************************************************)
(* createBackup step by step (SpecBuild).                                  *)
(***************************************************************************)

\* the call of builder b has ended with a rejected promise
BuildFailed(b) == build[b].rejected /\ build[b].pc \in {"dead", "settled"}

\* C15: when a createBackup call has failed, no file with the name it
\* allocated is in BACKUP_DIR and the call has evicted no stored archive.
C15_FailedBuildLeavesNothing ==
    \A b \in Builders :
        BuildFailed(b) =>
            /\ build[b].name \notin DOMAIN files
            /\ build[b].evicted = <<>>

\* C16: in every state, while a createBackup call streams and after one has
\* failed, listBackups returns no file whose write has not been completed.
C16_NoPartialListed ==
    \A backups \in ListBackups(files) : Range(backups) \cap partial = {}

\* C19: two createBackup calls in progress never hold the same name, and no
\* call opens a name that a file of BACKUP_DIR already has.
C19_NamesCollisionFree ==
    /\ \A x, y \in Builders :
          (x # y /\ build[x].pc # "idle" /\ build[y].pc # "idle")
             => build[x].name # build[y].name
    /\ \A b \in Builders :
          build[b].pc = "opening" => build[b].name \notin DOMAIN files

(***************************************************************************)
(* Eviction order (SpecBackup).  The creation time of an archive is the    *)
(* clock reading its name was made from.                                   *)
(***************************************************************************)

C18_UploadRemoved ==
    (Finished /\ r.source = "upload") => ~uploadFile

(***************************************************************************)
(* Overlapping operations (SpecCalls).                                     *)
(***************************************************************************)

\* the live store file and the live images tree are those of one archive, or
\* those of the installation before any restore
LiveFromOneSource ==
    \/ <<liveDb, liveImages>> = <<"db1", "img1">>
    \/ \E a \in CallArchives : <<liveDb, liveImages>> = <<a.db, a.images>>

\* C20: nothing keeps an operation from starting while others are in
\* progress: in every state a restoreBackup call that has not been made can
\* be made, and a createBackup call can start, whatever the other calls are
\* doing.
C20_NoMutualExclusion ==
    /\ \A p \in Callers : calls[p].pc = "idle" => ENABLED RestoreCall(p)
    /\ build[CallBuilder].pc = "idle" => ENABLED BuildStart(CallBuilder)

\* Two restoreBackup calls have both returned without an exception and the
\* live store file is that of one archive, the live images tree that of the
\* other; and a complete archive in BACKUP_DIR holds the store file of the
\* installation with the images tree of a restored archive.
C20_Witness ==
    /\ \A p \in Callers : calls[p].pc = "done"
    /\ calls["p1"].archive # calls["p2"].archive
    /\ liveDb = calls["p2"].archive.db
    /\ liveImages = calls["p1"].archive.images
    /\ ~LiveFromOneSource
    /\ \E n \in DOMAIN files \ partial :
          files[n].db = "db1" /\ files[n].images = calls["p1"].archive.images

(***************************************************************************)
(* The archive createBackup has just written (SpecBackup).                 *)
(***************************************************************************)

\* C21: when createBackup has resolved with a name, a file of that name is
\* in BACKUP_DIR, whatever its size.
C21_NewArchiveKept ==
    lastOp.op = "createBackup" => lastOp.name \in DOMAIN files

(***************************************************************************)
(* The staging directory of overlapping restores (SpecCalls).              *)
(***************************************************************************)

\* the call is between its entry and its return
CallInProgress(p) == calls[p].pc \notin {"idle", "done", "failed"}

\* C22: when a restore is about to extract, its staging directory is empty
\* and no other restore in progress uses it.
C22_FreshStaging ==
    \A p \in Callers :
        calls[p].pc = "extract" =>
            /\ Staged = NoMembers
            /\ \A q \in Callers \ {p} : ~CallInProgress(q)

(***************************************************************************)
(* The move of the staged images tree (SpecRestore).                       *)
(***************************************************************************)

\* C23: whatever the outcome of the rename of the staged images tree, with a
\* failure for another filesystem or for a permission included, the step
\* leaves the staged tree in the live location, the staged source removed and
\* the restore without exception.
C23_RenameFallsBack ==
    [][(rpc = "RenameImages")
          => /\ liveImages' = staging[r.extractDir].images
             /\ staging'[r.extractDir].images = None
             /\ ~r'.threw]_vars

(***************************************************************************)
(* Operations on one name (SpecBulk).                                      *)
(***************************************************************************)

\* C24: an operation that reaches the filesystem with a name has tested the
\* name against the strict pattern, and the path it looks up, reads or
\* deletes is a file directly in BACKUP_DIR.
C24_PathConfined ==
    (access.op # None /\ access.touched # "nothing") =>
        /\ StrictPattern(access.filename)
        /\ access.touched = "inside"

(***************************************************************************)
(* Order of the legacy import and the runner (SpecMig).                    *)
(***************************************************************************)

\* C25: in every start the runner has read nothing while the legacy import
\* is in progress, the list of pending units it then builds holds no name that
\* is in the ledger, the imported names included, and no unit whose name is in
\* the ledger has its up executed.
C25_ImportBeforeRunner ==
    /\ [](pc = "import" => (pending = <<>> /\ attempted = <<>>))
    /\ [][(pc = "umzug" /\ pc' = "run")
            => Range(pending') \cap Executed(ledger) = {}]_vars
    /\ [][(pc = "run" /\ pc' \in {"log", "failed"})
            => Head(pending) \notin Executed(ledger)]_vars

\* A start has imported names into the empty ledger and the runner has then
\* run the other units only, to the end.
C25_Witness ==
    /\ pc = "ready"
    /\ executedMigrations = {}
    /\ importHist.now /\ importHist.completed
    /\ attempted # <<>>
    /\ Len(attempted) < Cardinality(MigrationNames)
    /\ AllRecorded

\* C29: whenever the runner starts with the legacy file still on disk, every
\* name of the file is in the ledger, so that no unit the file lists is run.
C29_InterruptedImportResumed ==
    (pc \in {"run", "log"} /\ umzugJsonExists)
        => Range(umzugJson) \subseteq (Executed(ledger) \ Range(attempted))

(***************************************************************************)
(* The readiness of the store (SpecGate).                                  *)
(***************************************************************************)

\* C26: a utility that awaits the `ready` it holds and then calls getDb() runs
\* its statement only when the migrations of the startup have completed.
C26_ReadinessGate == gate.stmt \in {None, "threw", "ready"}

(***************************************************************************)
(* The category cache (SpecCache).                                         *)
(***************************************************************************)

\* C30: a getCachedCategories call that began after an invalidation returned
\* does not return a list read from the store before that invalidation.
C30_InvalidationEffective ==
    \A g \in Readers :
        refresh[g].pc = "returned" => refresh[g].epoch >= refresh[g].startInv

(***************************************************************************)
(* The container of a bulk download (SpecContainer).                       *)
(***************************************************************************)

\* C27: every entry that listBackups returns and every file counted by
\* totalBackupSize is an archive written by createBackup or saveBackup, and no
\* createBackup evicts anything else.
C27_OnlySnapshots ==
    /\ \A backups \in ListBackups(files) : Range(backups) \subseteq Snapshots(files)
    /\ TotalBackupSize(files) = SumSizes(files, Snapshots(files))
    /\ lastOp.op = "createBackup" => \A n \in Range(lastOp.evicted) : n.kind # "bulk"

(***************************************************************************)
(* Overlapping creations (SpecBuild).                                      *)
(***************************************************************************)

\* C28: once the write stream of a createBackup call has ended with its file
\* in BACKUP_DIR, the file stays there until the call's own eviction step, and
\* the call settles by resolving with the name, whatever the other call, itself
\* not failed, does meanwhile.
WriteCompleted(b) ==
    /\ build[b].pc = "closed"
    /\ ~build[b].rejected
    /\ build[b].name \in DOMAIN files

C28_BothCreationsSucceed ==
    [][\A b \in Builders :
          (WriteCompleted(b) /\ \A c \in Builders : ~build[c].rejected) =>
              /\ build'[b].pc = "closed" => build[b].name \in DOMAIN files'
              /\ build'[b].pc = "settled" => ~build'[b].rejected]_vars

====
